---- MODULE Spec2Model ----
(***************************************************************************)
(* FileSource<T, REQUIRED> of src/src/lib.rs: a cached value backed by one *)
(* file, re-read when an optional refresh interval has elapsed.            *)
(*                                                                         *)
(* T is instantiated with an unsigned integer type: its FromStr accepts a  *)
(* non-empty string of digits and rejects everything else (whitespace      *)
(* included), so parsing can fail. A string is a sequence of one-character *)
(* strings.                                                                *)
(***************************************************************************)
EXTENDS Integers, Sequences, FiniteSets, TLC

VARIABLES
    required,          \* const REQUIRED: bool (type-level, fixed at construction)
    value,             \* value: RefCell<Option<T>>
    refresh_interval,  \* refresh_interval: Option<Duration>
    last_refresh,      \* last_refresh: RefCell<Option<Instant>>
    auto_trim,         \* auto_trim: bool
    now,               \* the monotonic clock read by Instant::now()
    file,              \* what the file system holds at filepath
    ret                \* the last call on the source: its name, result and file opens

vars == <<required, value, refresh_interval, last_refresh, auto_trim, now, file, ret>>

\* ---------------------------------------------------------------- bounds
MaxLen == 3          \* longest file content
MaxTime == 2         \* the clock runs from 0 to MaxTime
MaxInterval == 1     \* longest refresh interval

\* ---------------------------------------------------------------- Option<_>
None == <<>>
Some(x) == <<x>>
is_some(o) == o # None
unwrap(o) == o[1]

\* ---------------------------------------------------------------- strings
Whitespace == {" "}
Digits == {"0", "1", "2", "3", "4", "5", "6", "7", "8", "9"}
Alphabet == {" ", "1"}   \* the characters file contents are drawn from

RECURSIVE StringsUpTo(_)
StringsUpTo(n) ==
    IF n = 0 THEN {<<>>}
    ELSE LET shorter == StringsUpTo(n - 1)
         IN  shorter \cup {Append(s, c) : s \in {t \in shorter : Len(t) = n - 1}, c \in Alphabet}

Contents == StringsUpTo(MaxLen)

\* str::trim: the slice without leading and trailing whitespace
RECURSIVE trim_start(_)
trim_start(s) ==
    IF s # <<>> /\ Head(s) \in Whitespace THEN trim_start(Tail(s)) ELSE s

RECURSIVE trim_end(_)
trim_end(s) ==
    IF s # <<>> /\ s[Len(s)] \in Whitespace THEN trim_end(SubSeq(s, 1, Len(s) - 1)) ELSE s

trim_OnlyEnd(s) == trim_end(s)
trim(s) == trim_end(trim_start(s))

\* <T as FromStr>::from_str for an unsigned integer T
DigitValue(c) ==
    CASE c = "0" -> 0 [] c = "1" -> 1 [] c = "2" -> 2 [] c = "3" -> 3 [] c = "4" -> 4
      [] c = "5" -> 5 [] c = "6" -> 6 [] c = "7" -> 7 [] c = "8" -> 8 [] c = "9" -> 9

RECURSIVE Number(_)
Number(s) ==
    IF s = <<>> THEN 0 ELSE 10 * Number(SubSeq(s, 1, Len(s) - 1)) + DigitValue(s[Len(s)])

parse(s) ==
    IF s = <<>> THEN [ok |-> FALSE, val |-> None, err |-> <<"ParseError", "Empty">>]
    ELSE IF \E i \in 1..Len(s) : s[i] \notin Digits
         THEN [ok |-> FALSE, val |-> None, err |-> <<"ParseError", "InvalidDigit">>]
         ELSE [ok |-> TRUE, val |-> Some(Number(s)), err |-> <<>>]

\* ---------------------------------------------------------------- the file system
Missing == [kind |-> "missing", content |-> <<>>]
Unreadable == [kind |-> "unreadable", content |-> <<>>]   \* exists; open or read fails
Text(s) == [kind |-> "text", content |-> s]

FileStates == {Missing, Unreadable} \cup {Text(s) : s \in Contents}

exists(f) == f.kind # "missing"

\* ---------------------------------------------------------------- results
\* ret records the call (op), its Result (ok, val, err), how often it called
\* refresh_value (refreshes) and File::open (reads), whether the file was removed
\* under it (raced), and the two cells as they were when it was entered (pre).
NoPre == [value |-> None, last_refresh |-> None]
NoCall ==
    [op |-> "none", ok |-> TRUE, val |-> None, err |-> <<>>, reads |-> 0,
     refreshes |-> 0, raced |-> FALSE, pre |-> NoPre]
Ok(op, v) == [NoCall EXCEPT !.op = op, !.val = v]
Err(op, e) == [NoCall EXCEPT !.op = op, !.ok = FALSE, !.err = e]

\* #[from] RefreshFileSourceError<E> for ValueError<E>
WrapRefreshError(e) == <<"RefreshFileSourceError">> \o e

\* ---------------------------------------------------------------- the source
Init ==
    /\ required \in BOOLEAN
    /\ value = None
    /\ refresh_interval = None
    /\ last_refresh = None
    /\ auto_trim = TRUE
    /\ now = 0
    /\ file \in FileStates
    /\ ret = NoCall

\* set_value: the cell pair after storing v at time t
set_value_KeepsLastRefresh(v, t) == [value |-> v, last_refresh |-> last_refresh]
set_value(v, t) == [value |-> v, last_refresh |-> Some(t)]

Unchanged == [value |-> value, last_refresh |-> last_refresh]

\* the condition of refresh_on_timeout, on last_refresh lr, interval ri and time t
ShouldRefresh_AtDeadline(lr, ri, t) ==
    lr = None \/ (ri # None /\ unwrap(lr) + unwrap(ri) <= t)
ShouldRefresh_IgnoresClock(lr, ri, t) ==
    lr = None \/ ri # None
ShouldRefresh_NoIntervalIsZero(lr, ri, t) ==
    lr = None \/ unwrap(lr) + (IF ri = None THEN 0 ELSE unwrap(ri)) < t
ShouldRefresh(lr, ri, t) ==
    \/ lr = None
    \/ /\ ri # None
       /\ unwrap(lr) + unwrap(ri) < t

\* what one refresh does: err (<<>> on success), the cells after it, the
\* File::open calls (reads) and refresh_value calls (refreshes) made, the file after it
Outcome(e, c, n, f) == [err |-> e, cells |-> c, reads |-> n, refreshes |-> 1, file |-> f]

\* refresh_value when filepath.exists() is false
refresh_missing_IgnoresRequired == Outcome(<<>>, set_value(None, now), 0, file)
refresh_missing_AlwaysRequired == Outcome(<<"NoValue">>, Unchanged, 0, file)
refresh_missing_KeepsCache ==
    IF required
    THEN Outcome(<<"NoValue">>, Unchanged, 0, file)
    ELSE Outcome(<<>>, set_value(value, now), 0, file)
refresh_missing_ResetsLastRefresh ==
    IF required
    THEN Outcome(<<"NoValue">>, Unchanged, 0, file)
    ELSE Outcome(<<>>, [value |-> None, last_refresh |-> None], 0, file)
refresh_missing ==
    IF required
    THEN Outcome(<<"NoValue">>, Unchanged, 0, file)
    ELSE Outcome(<<>>, set_value(None, now), 0, file)

\* the slice of the content s that is parsed
to_parse_NeverTrims(s) == s
to_parse(s) == IF auto_trim THEN trim(s) ELSE s

\* refresh_value. raced: the file is removed between the exists() check and File::open.
refresh_value_RaceAsMissing(raced) ==
    IF ~exists(file)
    THEN refresh_missing
    ELSE IF raced
    THEN [refresh_missing EXCEPT !.file = Missing]
    ELSE IF file.kind = "unreadable"
    THEN Outcome(<<"IOError">>, Unchanged, 1, file)
    ELSE LET parsed == parse(to_parse(file.content))
         IN  IF ~parsed.ok
             THEN Outcome(parsed.err, Unchanged, 1, file)
             ELSE Outcome(<<>>, set_value(parsed.val, now), 1, file)
refresh_value_StampsFailure(raced) ==
    IF ~exists(file)
    THEN refresh_missing
    ELSE IF raced
    THEN Outcome(<<"IOError">>, set_value(value, now), 1, Missing)
    ELSE IF file.kind = "unreadable"
    THEN Outcome(<<"IOError">>, set_value(value, now), 1, file)
    ELSE LET parsed == parse(to_parse(file.content))
         IN  IF ~parsed.ok
             THEN Outcome(parsed.err, set_value(value, now), 1, file)
             ELSE Outcome(<<>>, set_value(parsed.val, now), 1, file)
refresh_value(raced) ==
    IF ~exists(file)
    THEN refresh_missing
    ELSE IF raced
    THEN Outcome(<<"IOError">>, Unchanged, 1, Missing)
    ELSE IF file.kind = "unreadable"
    THEN Outcome(<<"IOError">>, Unchanged, 1, file)
    ELSE LET parsed == parse(to_parse(file.content))
         IN  IF ~parsed.ok
             THEN Outcome(parsed.err, Unchanged, 1, file)
             ELSE Outcome(<<>>, set_value(parsed.val, now), 1, file)

\* refresh_on_timeout
refresh_on_timeout_Retries(raced) ==
    IF ShouldRefresh(last_refresh, refresh_interval, now)
    THEN LET first == refresh_value(raced)
         IN  IF first.err = <<>> \/ raced
             THEN first
             ELSE [refresh_value(FALSE) EXCEPT !.reads = @ + first.reads, !.refreshes = 2]
    ELSE [Outcome(<<>>, Unchanged, 0, file) EXCEPT !.refreshes = 0]
refresh_on_timeout(raced) ==
    IF ShouldRefresh(last_refresh, refresh_interval, now)
    THEN refresh_value(raced)
    ELSE [Outcome(<<>>, Unchanged, 0, file) EXCEPT !.refreshes = 0]

\* ValueSource::value for FileSource<T, true> and FileSource<T, false>,
\* on the outcome r of its refresh_on_timeout call
value_result_UnwrapsNoValue(r) ==
    IF r.err = <<"NoValue">> THEN Err("value", r.err)
    ELSE IF r.err # <<>> THEN Err("value", WrapRefreshError(r.err))
    ELSE IF required /\ ~is_some(r.cells.value) THEN Err("value", <<"NoValue">>)
    ELSE Ok("value", r.cells.value)
value_result_ReadsCacheFirst(r) ==
    IF r.err # <<>> THEN Err("value", WrapRefreshError(r.err))
    ELSE IF required /\ ~is_some(value) THEN Err("value", <<"NoValue">>)
    ELSE Ok("value", value)
value_result_FallsBackToCache(r) ==
    IF r.err # <<>> /\ ~is_some(r.cells.value) THEN Err("value", WrapRefreshError(r.err))
    ELSE IF required /\ ~is_some(r.cells.value) THEN Err("value", <<"NoValue">>)
    ELSE Ok("value", r.cells.value)
value_result(r) ==
    IF r.err # <<>>
    THEN Err("value", WrapRefreshError(r.err))
    ELSE IF required
         THEN IF is_some(r.cells.value)
              THEN Ok("value", r.cells.value)
              ELSE Err("value", <<"NoValue">>)
         ELSE Ok("value", r.cells.value)

\* Result<(), RefreshFileSourceError<E>> of the call op
unit_result(op, r) == IF r.err = <<>> THEN Ok(op, None) ELSE Err(op, r.err)

\* the call's record: its result with what the call did
Observed(res, r, raced) ==
    [res EXCEPT !.reads = r.reads, !.refreshes = r.refreshes,
                !.raced = raced /\ r.file # file, !.pre = Unchanged]

Apply(r) ==
    /\ value' = r.cells.value
    /\ last_refresh' = r.cells.last_refresh
    /\ file' = r.file
    /\ UNCHANGED <<required, refresh_interval, auto_trim, now>>

Races == IF exists(file) THEN BOOLEAN ELSE {FALSE}

Value ==
    \E raced \in Races :
        LET r == refresh_on_timeout(raced)
        IN  /\ Apply(r)
            /\ ret' = Observed(value_result(r), r, raced)

RefreshOnTimeout ==
    \E raced \in Races :
        LET r == refresh_on_timeout(raced)
        IN  /\ Apply(r)
            /\ ret' = Observed(unit_result("refresh_on_timeout", r), r, raced)

RefreshValue_OnTimeout ==
    \E raced \in Races :
        LET r == refresh_on_timeout(raced)
        IN  /\ Apply(r)
            /\ ret' = Observed(unit_result("refresh_value", r), r, raced)
RefreshValue ==
    \E raced \in Races :
        LET r == refresh_value(raced)
        IN  /\ Apply(r)
            /\ ret' = Observed(unit_result("refresh_value", r), r, raced)

Intervals == {None} \cup {Some(d) : d \in 0..MaxInterval}

SetRefreshInterval_DropsCache ==
    \E interval \in Intervals :
        /\ refresh_interval' = interval
        /\ value' = None
        /\ last_refresh' = None
        /\ ret' = Ok("set_refresh_interval", None)
        /\ UNCHANGED <<required, auto_trim, now, file>>
SetRefreshInterval ==
    \E interval \in Intervals :
        /\ refresh_interval' = interval
        /\ ret' = Ok("set_refresh_interval", None)
        /\ UNCHANGED <<required, value, last_refresh, auto_trim, now, file>>

SetAutoTrim ==
    \E b \in BOOLEAN :
        /\ auto_trim' = b
        /\ ret' = Ok("set_auto_trim", None)
        /\ UNCHANGED <<required, value, refresh_interval, last_refresh, now, file>>

\* ---------------------------------------------------------------- the environment
EnvWrite ==
    \E f \in FileStates :
        /\ f # file
        /\ file' = f
        /\ ret' = NoCall
        /\ UNCHANGED <<required, value, refresh_interval, last_refresh, auto_trim, now>>

Tick ==
    /\ now < MaxTime
    /\ now' = now + 1
    /\ ret' = NoCall
    /\ UNCHANGED <<required, value, refresh_interval, last_refresh, auto_trim, file>>

Next ==
    \/ EnvWrite
    \/ Tick
    \/ SetRefreshInterval
    \/ SetAutoTrim
    \/ Value
    \/ RefreshOnTimeout
    \/ RefreshValue

Spec == Init /\ [][Next]_vars

\* ================================================================ properties
\* A call leaves refresh_interval, auto_trim, now and required alone, and the
\* file too unless it raced; so in the state after a call, ret.pre and these
\* describe the state the call was entered in.
WasRefreshed == ret.pre.last_refresh # None
T0 == unwrap(ret.pre.last_refresh)
D == unwrap(refresh_interval)

\* the refresh policy as the specification states it, on the entry state
Stale ==
    \/ ~WasRefreshed
    \/ /\ refresh_interval # None
       /\ T0 + D < now

CellsUntouched == value = ret.pre.value /\ last_refresh = ret.pre.last_refresh

\* the file is there, can be read, and its (trimmed, if auto_trim) text parses
FileParsed == parse(IF auto_trim THEN trim(file.content) ELSE file.content)
FileParses == file.kind = "text" /\ FileParsed.ok
FileValue == FileParsed.val

WrappedNoValue == <<"RefreshFileSourceError", "NoValue">>

\* C1: refresh_on_timeout calls refresh_value (once) exactly when last_refresh
\* is absent or an interval is set and last_refresh + interval < now; otherwise
\* it returns Ok, opens no file and leaves value and last_refresh as they were.
C1_RefreshIffStale ==
    ret.op = "refresh_on_timeout" =>
        /\ (ret.refreshes = 1) <=> Stale
        /\ ~Stale => /\ ret.ok
                     /\ ret.reads = 0
                     /\ ret.refreshes = 0
                     /\ ~ret.raced
                     /\ CellsUntouched

\* a refresh_on_timeout call that refreshed because the interval had elapsed
C1_Witness ==
    /\ ret.op = "refresh_on_timeout"
    /\ WasRefreshed
    /\ Stale
    /\ ret.refreshes = 1
    /\ ret.reads = 1

\* C2: with interval d and the last successful refresh at t0, a value() call at
\* a time before t0 + d returns the cached value, opens no file and changes
\* nothing, whatever the file holds by then.
C2_CachedWithinInterval ==
    (/\ ret.op = "value"
     /\ refresh_interval # None
     /\ WasRefreshed
     /\ now < T0 + D)
    => /\ ret.ok
       /\ ret.val = ret.pre.value
       /\ ret.reads = 0
       /\ ret.refreshes = 0
       /\ ~ret.raced
       /\ CellsUntouched

\* value() inside the interval returned a cached value the file no longer gives
C2_Witness ==
    /\ ret.op = "value"
    /\ refresh_interval # None
    /\ WasRefreshed
    /\ now < T0 + D
    /\ is_some(ret.val)
    /\ ~FileParses \/ FileValue # ret.val

\* C3 as stated: a value() call at a time at or after t0 + d re-reads the file
\* and returns the value parsed from its content (the file being readable and
\* parseable throughout the call).
C3_AtOrAfterDeadline ==
    (/\ ret.op = "value"
     /\ refresh_interval # None
     /\ WasRefreshed
     /\ now >= T0 + D
     /\ FileParses
     /\ ~ret.raced)
    => /\ ret.reads = 1
       /\ ret.ok
       /\ ret.val = FileValue

\* C3 amended: strictly after t0 + d the call refreshes, and returns the value
\* parsed from the file when the file is readable and parses; at exactly
\* t0 + d it does not refresh and returns the cached value.
C3_StrictlyAfterDeadline ==
    (/\ ret.op = "value"
     /\ refresh_interval # None
     /\ WasRefreshed)
    => /\ now > T0 + D =>
            /\ ret.refreshes = 1
            /\ (FileParses /\ ~ret.raced) =>
                    /\ ret.reads = 1
                    /\ ret.ok
                    /\ ret.val = FileValue
                    /\ value = FileValue
                    /\ last_refresh = Some(now)
       /\ now = T0 + D =>
            /\ ret.refreshes = 0
            /\ ret.reads = 0
            /\ ret.ok
            /\ ret.val = ret.pre.value

\* value() after the interval returned a new value read from the file
C3_Witness ==
    /\ ret.op = "value"
    /\ refresh_interval # None
    /\ WasRefreshed
    /\ now > T0 + D
    /\ ret.ok
    /\ ret.reads = 1
    /\ is_some(ret.pre.value)
    /\ ret.val # ret.pre.value
    /\ ret.val = FileValue

Calls == {"value", "refresh_on_timeout", "refresh_value"}

\* the call failed in its refresh (for value(), the error is the wrapped one)
RefreshFailed ==
    /\ ~ret.ok
    /\ ret.err # <<"NoValue">> \/ ret.op # "value"

\* what a successful refresh caches for the file as it is
Refreshed == IF exists(file) THEN FileValue ELSE None

\* C4: a refresh_value call is all-or-nothing on (value, last_refresh): when it
\* succeeds, value is what the file gives and last_refresh is the current time;
\* when it fails (NoValue, IOError, ParseError), both are what they were; a call
\* that does not refresh touches neither. last_refresh is absent only while
\* value is.
C4_RefreshAllOrNothing ==
    /\ last_refresh = None => value = None
    /\ ret.op \in Calls =>
        /\ (ret.refreshes = 1 /\ ~RefreshFailed) =>
                /\ ~ret.raced
                /\ value = Refreshed
                /\ last_refresh = Some(now)
        /\ (ret.refreshes = 1 /\ RefreshFailed) =>
                /\ CellsUntouched
                /\ ret.err[Len(ret.err)] \in {"NoValue", "IOError", "Empty", "InvalidDigit"}
        /\ ret.refreshes = 0 => CellsUntouched

\* a refresh failed on a parse error while an older value was cached
C4_Witness ==
    /\ ret.op = "refresh_value"
    /\ ~ret.ok
    /\ ret.err[1] = "ParseError"
    /\ is_some(value)
    /\ last_refresh # Some(now)
    /\ CellsUntouched

\* C5 as stated: value() on a required source whose file is missing fails with
\* RefreshFileSourceError(NoValue).
C5_MissingRequiredFails ==
    (/\ ret.op = "value"
     /\ required
     /\ ~exists(file)
     /\ ~ret.raced)
    => /\ ~ret.ok
       /\ ret.err = WrappedNoValue

\* C5 amended: it fails so when the call refreshes (always, on a source that
\* never refreshed successfully), and the failure leaves value and last_refresh
\* alone, so that the refresh condition still holds for the next call;
\* otherwise it returns the value cached while the file was there.
C5_MissingRequiredFailsWhenStale ==
    (/\ ret.op = "value"
     /\ required
     /\ ~exists(file)
     /\ ~ret.raced)
    => IF Stale
       THEN /\ ~ret.ok
            /\ ret.err = WrappedNoValue
            /\ ret.reads = 0
            /\ CellsUntouched
            /\ ShouldRefresh(last_refresh, refresh_interval, now)
       ELSE /\ ret.ok
            /\ is_some(ret.val)
            /\ ret.val = ret.pre.value
            /\ ret.refreshes = 0

\* value() failed with NoValue on a required source that never refreshed, at a
\* time when calls can have been made before
C5_Witness ==
    /\ ret.op = "value"
    /\ required
    /\ ~exists(file)
    /\ ~ret.raced
    /\ ret.err = WrappedNoValue
    /\ ~WasRefreshed
    /\ now > 0

\* C6 as stated: value() on an optional source whose file is missing returns
\* Ok(None).
C6_MissingOptionalIsNone ==
    (/\ ret.op = "value"
     /\ ~required
     /\ ~exists(file)
     /\ ~ret.raced)
    => /\ ret.ok
       /\ ret.val = None

\* C6 amended: it never fails; it returns Ok(None), and caches None, when the
\* call refreshes, and otherwise returns the cached value, present or absent.
C6_MissingOptionalNeverFails ==
    (/\ ret.op = "value"
     /\ ~required
     /\ ~exists(file)
     /\ ~ret.raced)
    => /\ ret.ok
       /\ ret.reads = 0
       /\ IF Stale
          THEN ret.val = None /\ value = None /\ last_refresh = Some(now)
          ELSE ret.val = ret.pre.value /\ CellsUntouched

\* value() on an optional source replaced a cached value by None
C6_Witness ==
    /\ ret.op = "value"
    /\ ~required
    /\ ~exists(file)
    /\ ~ret.raced
    /\ is_some(ret.pre.value)
    /\ ret.ok
    /\ ret.val = None

\* C7 as stated: value() on an optional source whose file exists and parses
\* returns Some(v), v parsed from the file, whatever state the source is in.
C7_OptionalReturnsFileValue ==
    (/\ ret.op = "value"
     /\ ~required
     /\ FileParses
     /\ ~ret.raced)
    => /\ ret.ok
       /\ ret.val = FileValue

\* C7 amended: it succeeds; it returns Some(v), v parsed from the file, when
\* the call refreshes, and otherwise the cached value (an older value, or None).
C7_OptionalReturnsFileValueWhenStale ==
    (/\ ret.op = "value"
     /\ ~required
     /\ FileParses
     /\ ~ret.raced)
    => /\ ret.ok
       /\ IF Stale
          THEN /\ ret.reads = 1
               /\ is_some(ret.val)
               /\ ret.val = FileValue
               /\ value = FileValue
          ELSE /\ ret.reads = 0
               /\ ret.val = ret.pre.value
               /\ CellsUntouched

\* value() on an optional source replaced the cached value by the file's,
\* parsed from an untrimmed text
C7_Witness ==
    /\ ret.op = "value"
    /\ ~required
    /\ FileParses
    /\ ~ret.raced
    /\ WasRefreshed
    /\ Stale
    /\ ret.val = FileValue
    /\ ret.val # ret.pre.value
    /\ trim(file.content) # file.content

\* C8 as stated: value() on a required source whose file exists and parses
\* succeeds with the value parsed from the file.
C8_RequiredReturnsFileValue ==
    (/\ ret.op = "value"
     /\ required
     /\ FileParses
     /\ ~ret.raced)
    => /\ ret.ok
       /\ ret.val = FileValue

\* C8 amended: it succeeds with a value; with the value parsed from the file,
\* read once, when the call refreshes (so on the first call of a new source),
\* and otherwise with the cached value.
C8_RequiredReturnsFileValueWhenStale ==
    (/\ ret.op = "value"
     /\ required
     /\ FileParses
     /\ ~ret.raced)
    => /\ ret.ok
       /\ is_some(ret.val)
       /\ ~WasRefreshed => Stale /\ ret.pre.value = None
       /\ IF Stale
          THEN /\ ret.reads = 1
               /\ ret.refreshes = 1
               /\ ret.val = FileValue
               /\ value = FileValue
               /\ last_refresh = Some(now)
          ELSE /\ ret.reads = 0
               /\ ret.val = ret.pre.value
               /\ CellsUntouched

\* the first value() of a required source read the file and returned its value
C8_Witness ==
    /\ ret.op = "value"
    /\ required
    /\ FileParses
    /\ ~ret.raced
    /\ ret.pre = NoPre
    /\ ret.reads = 1
    /\ ret.ok
    /\ ret.val = FileValue

\* C9: with no refresh_interval and a refresh done, value() and
\* refresh_on_timeout open no file and call no refresh: they succeed, value()
\* with the cached value, and leave value and last_refresh alone, whatever the
\* time and the file.
C9_StickyWithoutInterval ==
    (/\ ret.op \in {"value", "refresh_on_timeout"}
     /\ refresh_interval = None
     /\ WasRefreshed)
    => /\ ret.ok
       /\ ret.reads = 0
       /\ ret.refreshes = 0
       /\ ~ret.raced
       /\ CellsUntouched
       /\ ret.op = "value" => ret.val = ret.pre.value

\* value() returned the cached value later than its refresh, the file by then
\* giving another value
C9_Witness ==
    /\ ret.op = "value"
    /\ refresh_interval = None
    /\ WasRefreshed
    /\ now > T0
    /\ is_some(ret.val)
    /\ FileParses
    /\ FileValue # ret.val

\* C10: on a required source, last_refresh set implies value present, and
\* value() returns a value or a wrapped refresh error, never ValueError::NoValue.
C10_RequiredNoValueUnreachable ==
    required =>
        /\ last_refresh # None => is_some(value)
        /\ ret.op = "value" =>
            \/ ret.ok /\ is_some(ret.val)
            \/ ~ret.ok /\ Len(ret.err) >= 2 /\ ret.err[1] = "RefreshFileSourceError"

\* value() on a refreshed required source failed on a missing file
C10_Witness ==
    /\ required
    /\ ret.op = "value"
    /\ WasRefreshed
    /\ ~exists(file)
    /\ ret.err = WrappedNoValue
    /\ is_some(value)

\* the refresh-level error of the call (value() wraps it)
RefreshErr ==
    IF ret.op = "value" /\ Len(ret.err) > 1 /\ ret.err[1] = "RefreshFileSourceError"
    THEN Tail(ret.err)
    ELSE ret.err

\* C11: on an optional source a refresh that finds no file succeeds, opens
\* nothing, sets value to None, whatever was cached, and last_refresh to the
\* current time, so that no refresh is due right after it.
C11_OptionalAbsenceIsCached ==
    (/\ ret.op \in Calls
     /\ ~required
     /\ ~exists(file)
     /\ ~ret.raced
     /\ ret.refreshes = 1)
    => /\ ret.ok
       /\ ret.reads = 0
       /\ ret.val = None
       /\ value = None
       /\ last_refresh = Some(now)
       /\ ~ShouldRefresh(last_refresh, refresh_interval, now)

\* a direct refresh of an optional source dropped a cached value for a missing file
C11_Witness ==
    /\ ret.op = "refresh_value"
    /\ ~required
    /\ ~exists(file)
    /\ ~ret.raced
    /\ is_some(ret.pre.value)
    /\ WasRefreshed
    /\ T0 < now
    /\ value = None
    /\ last_refresh = Some(now)

\* the error a refresh of the file as it is must fail with (<<>>: none)
FileError ==
    IF ret.raced THEN <<"IOError">>
    ELSE IF ~exists(file) THEN (IF required THEN <<"NoValue">> ELSE <<>>)
    ELSE IF file.kind = "unreadable" THEN <<"IOError">>
    ELSE FileParsed.err

\* C12: when the refresh made by value() fails, value() returns that error as
\* RefreshFileSourceError(variant), the variant being the refresh's, and no
\* value, also when a value is cached.
C12_RefreshErrorSurfaces ==
    (/\ ret.op = "value"
     /\ ret.refreshes = 1
     /\ FileError # <<>>)
    => /\ ~ret.ok
       /\ ret.val = None
       /\ ret.err = <<"RefreshFileSourceError">> \o FileError
       /\ CellsUntouched

\* value() returned an I/O error while a value was cached
C12_Witness ==
    /\ ret.op = "value"
    /\ ret.refreshes = 1
    /\ file.kind = "unreadable"
    /\ is_some(value)
    /\ ret.err = <<"RefreshFileSourceError", "IOError">>

\* C13: set_refresh_interval and set_auto_trim change their own field alone:
\* value, last_refresh, the other setting and the file are as before, nothing
\* is opened and the call cannot fail. The call made next decides with the new
\* interval whether to refresh, and a refresh made next parses with the new
\* auto_trim.
C13_SettersOnlySetTheirField ==
    [][/\ ret'.op \in {"set_refresh_interval", "set_auto_trim"} =>
            /\ value' = value
            /\ last_refresh' = last_refresh
            /\ file' = file
            /\ now' = now
            /\ required' = required
            /\ ret'.op = "set_refresh_interval" => auto_trim' = auto_trim
            /\ ret'.op = "set_auto_trim" => refresh_interval' = refresh_interval
            /\ ret'.ok
            /\ ret'.err = <<>>
            /\ ret'.reads = 0
            /\ ret'.refreshes = 0
       /\ (ret.op = "set_refresh_interval" /\ ret'.op \in {"value", "refresh_on_timeout"}) =>
            (ret'.refreshes = 1 <=>
                \/ last_refresh = None
                \/ /\ refresh_interval # None
                   /\ unwrap(last_refresh) + unwrap(refresh_interval) < now)
       /\ (/\ ret.op = "set_auto_trim"
           /\ ret'.op \in Calls
           /\ ret'.refreshes = 1
           /\ file.kind = "text"
           /\ ~ret'.raced) =>
            LET p == parse(IF auto_trim THEN trim(file.content) ELSE file.content)
            IN  /\ ret'.ok = p.ok
                /\ p.ok => value' = p.val
                /\ ~p.ok => value' = value
      ]_vars

\* auto_trim was switched off while a value parsed from an untrimmed text is
\* cached: the value stays, though the text no longer parses
C13_Witness ==
    /\ ret.op = "set_auto_trim"
    /\ ~auto_trim
    /\ file.kind = "text"
    /\ trim(file.content) # file.content
    /\ is_some(value)
    /\ value = parse(trim(file.content)).val
    /\ ~parse(file.content).ok
    /\ last_refresh # None

\* n whitespace characters
RECURSIVE Blank(_)
Blank(n) == IF n = 0 THEN <<>> ELSE <<" ">> \o Blank(n - 1)

\* t is s without its leading and trailing whitespace
IsTrimmed(t, s) ==
    /\ \E i, j \in 0..Len(s) : s = Blank(i) \o t \o Blank(j)
    /\ t # <<>> => (t[1] \notin Whitespace /\ t[Len(t)] \notin Whitespace)

\* each content without its leading and trailing whitespace
Trimmed == [s \in Contents |-> CHOOSE t \in Contents : IsTrimmed(t, s)]

\* the contents that differ from t in leading and trailing whitespace alone
Padded == [t \in Contents |-> {c \in Contents : IsTrimmed(t, c)}]

\* the string the trimming law hands to the parser for the file as it is
Handed == IF auto_trim THEN Trimmed[file.content] ELSE file.content

\* C14: a refresh that reads the file parses its content without the leading
\* and trailing whitespace when auto_trim is set, and its content as it is
\* otherwise: it caches the value of that string, or fails with the parser's
\* error for it. With auto_trim, contents with the same trimmed string give
\* the same result.
C14_TrimmingLaw ==
    (/\ ret.op \in Calls
     /\ ret.refreshes = 1
     /\ file.kind = "text"
     /\ ~ret.raced)
    => /\ IsTrimmed(Handed, file.content) \/ ~auto_trim
       /\ ret.reads = 1
       /\ ret.ok = parse(Handed).ok
       /\ ret.ok => value = parse(Handed).val /\ last_refresh = Some(now)
       /\ ~ret.ok => RefreshErr = parse(Handed).err /\ CellsUntouched
       /\ auto_trim =>
            \A c \in Padded[Handed] :
                /\ parse(trim(c)).ok = ret.ok
                /\ parse(trim(c)).val = (IF ret.ok THEN value ELSE None)
                /\ parse(trim(c)).err = RefreshErr

\* a refresh with auto_trim cached the value of a text with whitespace on
\* both sides
C14_Witness ==
    /\ ret.op \in Calls
    /\ ret.refreshes = 1
    /\ auto_trim
    /\ file = Text(<<" ", "1", " ">>)
    /\ ret.ok
    /\ value = Some(1)

\* the file was there when the call was entered
FileWasThere == exists(file) \/ ret.raced

\* C15: a value() or refresh_on_timeout call opens the file once when a refresh
\* is due and the file is there, and not at all otherwise; it calls
\* refresh_value at most once, also when that fails.
C15_AtMostOneRead ==
    ret.op \in {"value", "refresh_on_timeout"} =>
        /\ ret.reads = (IF Stale /\ FileWasThere THEN 1 ELSE 0)
        /\ ret.refreshes = (IF Stale THEN 1 ELSE 0)
        /\ ~ret.ok => ret.reads <= 1 /\ ret.refreshes = 1

\* value() failed after one open of an unparseable file
C15_Witness ==
    /\ ret.op = "value"
    /\ ~ret.ok
    /\ RefreshErr[1] = "ParseError"
    /\ ret.reads = 1
    /\ ret.refreshes = 1

\* C16: when the file is removed between the exists() check and File::open,
\* the refresh fails with IOError, after one open, whether the source is
\* required or optional, and value and last_refresh are as they were.
C16_RaceIsIOError ==
    ret.raced =>
        /\ ret.op \in Calls
        /\ ~exists(file)
        /\ ~ret.ok
        /\ RefreshErr = <<"IOError">>
        /\ ret.reads = 1
        /\ CellsUntouched

\* the file of an optional source with a value cached was removed under value()
C16_Witness ==
    /\ ret.raced
    /\ ret.op = "value"
    /\ ~required
    /\ is_some(value)
    /\ ret.err = <<"RefreshFileSourceError", "IOError">>

\* C17: refresh_value always refreshes, whatever last_refresh and
\* refresh_interval: it opens the file if it is there, and on success value is
\* what the file gives and last_refresh the current time, so that no refresh
\* is due at that time.
C17_RefreshValueUnconditional ==
    ret.op = "refresh_value" =>
        /\ ret.refreshes = 1
        /\ ret.reads = (IF FileWasThere THEN 1 ELSE 0)
        /\ ret.ok = (FileError = <<>>)
        /\ ret.ok =>
            /\ value = Refreshed
            /\ last_refresh = Some(now)
            /\ ~ShouldRefresh(last_refresh, refresh_interval, now)

\* refresh_value replaced the cached value while no refresh was due
C17_Witness ==
    /\ ret.op = "refresh_value"
    /\ WasRefreshed
    /\ ~Stale
    /\ ret.ok
    /\ ret.reads = 1
    /\ value # ret.pre.value
    /\ last_refresh = Some(now)
    /\ T0 < now

\* this step is a call whose refresh succeeded
RefreshSucceeds == ret'.op \in Calls /\ ret'.ok /\ ret'.refreshes = 1

\* C18 as stated: a failed refresh leaves value and last_refresh alone, and
\* after a failed value() the refresh condition holds until a refresh
\* succeeds, so that the next value() refreshes.
C18_FailureKeepsRetrying ==
    [][/\ (ret'.op \in Calls /\ ~ret'.ok) =>
            (value' = value /\ last_refresh' = last_refresh)
       /\ (ret.op = "value" /\ ~ret.ok /\ ~RefreshSucceeds) =>
            ShouldRefresh(last_refresh', refresh_interval', now')
      ]_vars

\* set_refresh_interval does not clear or lengthen an interval that matters
IntervalKept ==
    \/ last_refresh = None
    \/ /\ refresh_interval' # None
       /\ unwrap(refresh_interval') <= unwrap(refresh_interval)

\* C18 amended: a failed refresh leaves value and last_refresh alone, and a
\* failed value() leaves the refresh condition true; the condition stays true
\* over every step in which no refresh succeeds and the interval is not
\* cleared or lengthened; and a value() call made while it holds refreshes,
\* and succeeds with the result for the file as it is when the file is
\* readable and parses (or, on an optional source, is missing).
C18_RetryWhileIntervalKept ==
    [][/\ (ret'.op \in Calls /\ ~ret'.ok) =>
            (value' = value /\ last_refresh' = last_refresh)
       /\ (ret'.op = "value" /\ ~ret'.ok) =>
            ShouldRefresh(last_refresh', refresh_interval', now')
       /\ (/\ ShouldRefresh(last_refresh, refresh_interval, now)
           /\ ~RefreshSucceeds
           /\ IntervalKept) =>
            ShouldRefresh(last_refresh', refresh_interval', now')
       /\ (ret'.op = "value" /\ ShouldRefresh(last_refresh, refresh_interval, now)) =>
            /\ ret'.refreshes = 1
            /\ (FileParses /\ file' = file) =>
                    /\ ret'.ok
                    /\ ret'.reads = 1
                    /\ ret'.val = FileValue
                    /\ value' = FileValue
            /\ (~required /\ ~exists(file)) =>
                    /\ ret'.ok
                    /\ ret'.val = None
                    /\ value' = None
      ]_vars

\* value() failed on a parse error in a refresh that the elapsed interval had
\* triggered; the value cached before is kept and a refresh is still due
C18_Witness ==
    /\ ret.op = "value"
    /\ ~ret.ok
    /\ RefreshErr[1] = "ParseError"
    /\ WasRefreshed
    /\ is_some(value)
    /\ CellsUntouched
    /\ ShouldRefresh(last_refresh, refresh_interval, now)

\* C19: last_refresh is absent on a new source; once set it is never absent
\* again and never earlier than it was; it changes in a call whose refresh
\* succeeds and in no other step, and every such call sets it to the time of
\* the call, which is never ahead of the clock.
C19_LastRefreshMonotonic ==
    /\ last_refresh = None
    /\ [][/\ last_refresh # None =>
               /\ last_refresh' # None
               /\ unwrap(last_refresh') >= unwrap(last_refresh)
          /\ last_refresh' # last_refresh => RefreshSucceeds
          /\ RefreshSucceeds =>
               /\ last_refresh' = Some(now')
               /\ now' = now
          /\ now' >= now
         ]_vars

\* a successful refresh replaced last_refresh by a later time
C19_Witness ==
    /\ ret.op \in Calls
    /\ ret.ok
    /\ ret.refreshes = 1
    /\ WasRefreshed
    /\ last_refresh # None
    /\ unwrap(last_refresh) > T0

====
